---- MODULE Spec2Model ----
(***************************************************************************)
(* Model of the websocket connection/queue manager of plus_db_agent        *)
(* (src/plus_db_agent/queue.py, schemas.py, enums.py).                     *)
(*                                                                         *)
(* Python values are represented as follows.                               *)
(*   - an Optional value is a tuple: <<>> is None, <<v>> is the value v;   *)
(*   - a str that the code inspects (the token) is a sequence of           *)
(*     characters, so that str_strip_whitespace can be computed;           *)
(*   - a pydantic model instance is a record carrying a "schema" field;    *)
(*   - a decoded JSON object is a record of its keys;                      *)
(*   - an exception is the "exc" field of the world record W that the      *)
(*     method operators thread through: every method returns W unchanged   *)
(*     when an exception is already in flight.                             *)
(***************************************************************************)
EXTENDS Integers, Sequences, FiniteSets, TLC

(* ------------------------------ bounds --------------------------------- *)
MaxConns == 2
MaxFrames == 2
MaxBroadcasts == 1
MaxCloses == 1
MaxThreads == 2
ClinicIds == {1, 2}

Conns == 1..MaxConns
Threads == 1..MaxThreads

(* ------------------------- enums.BaseMessageType ------------------------ *)
CONNECTION == 7
CREATE_UUID == 8
INVALID == 9
ERROR == 10
DISCONNECT == 11
BaseMessageType == {CONNECTION, CREATE_UUID, INVALID, ERROR, DISCONNECT}

(* ------------------------------ Optional -------------------------------- *)
None == <<>>
Some(v) == <<v>>

(* --------------------------- schemas.py --------------------------------- *)
\* str_strip_whitespace=True of BaseSchema.model_config: leading and
\* trailing blanks are removed from every str field.
RECURSIVE LStrip(_)
LStrip(s) == IF s # <<>> /\ Head(s) = " " THEN LStrip(Tail(s)) ELSE s

RECURSIVE RStrip(_)
RStrip(s) == IF s # <<>> /\ s[Len(s)] = " " THEN RStrip(SubSeq(s, 1, Len(s) - 1)) ELSE s

Strip(s) == RStrip(LStrip(s))

ConnectionSchema(t) == [schema |-> "ConnectionSchema", token |-> Strip(t)]
CreateUUIDSchema(u) == [schema |-> "CreateUUIDSchema", uuid |-> u]
ErrorResponseSchema(e) == [schema |-> "ErrorResponseSchema", error |-> e]

\* Validation of the `data` field, Optional[Union[ConnectionSchema,
\* CreateUUIDSchema, ErrorResponseSchema]] = None.  The input is a model
\* instance (kept as it is), None, or a decoded JSON object, which becomes
\* the first member of the union whose required key it has (extra keys are
\* ignored).  The result is <<>> when no member matches.
ValidateData(d) ==
    IF "schema" \in DOMAIN d THEN Some(d)
    ELSE IF "token" \in DOMAIN d THEN Some(ConnectionSchema(d.token))
    ELSE IF "uuid" \in DOMAIN d THEN Some(CreateUUIDSchema(d.uuid))
    ELSE IF "error" \in DOMAIN d THEN Some(ErrorResponseSchema(d.error))
    ELSE None

\* A Message whose fields could also be populated by their names.
MessageInit_by_name(kw) ==
    LET hasData == "data" \in DOMAIN kw /\ kw.data # None
        data == IF hasData THEN ValidateData(kw.data[1]) ELSE None
        type == IF "messageType" \in DOMAIN kw THEN Some(kw.messageType)
                ELSE IF "message_type" \in DOMAIN kw THEN Some(kw.message_type)
                ELSE None
        clinic == IF "clinicId" \in DOMAIN kw THEN Some(kw.clinicId)
                  ELSE IF "clinic_id" \in DOMAIN kw THEN Some(kw.clinic_id)
                  ELSE None
    IN  IF /\ type # None
           /\ clinic # None
           /\ type[1] \in BaseMessageType
           /\ hasData => data # None
        THEN [ok |-> TRUE,
              msg |-> [message_type |-> type[1], clinic_id |-> clinic[1],
                       data |-> data]]
        ELSE [ok |-> FALSE]

\* Message(**kw) and Message.model_validate_json: the fields are populated
\* by their aliases messageType and clinicId only (model_config does not set
\* populate_by_name), keys that are not aliases are ignored (extra="ignore"),
\* and messageType must be a value of BaseMessageType.  ok = FALSE stands for
\* pydantic's ValidationError.
MessageInit(kw) ==
    LET hasData == "data" \in DOMAIN kw /\ kw.data # None
        data == IF hasData THEN ValidateData(kw.data[1]) ELSE None
    IN  IF /\ "messageType" \in DOMAIN kw
           /\ "clinicId" \in DOMAIN kw
           /\ kw.messageType \in BaseMessageType
           /\ hasData => data # None
        THEN [ok |-> TRUE,
              msg |-> [message_type |-> kw.messageType,
                       clinic_id |-> kw.clinicId,
                       data |-> data]]
        ELSE [ok |-> FALSE]

(* ------------------------------- state ---------------------------------- *)
VARIABLES
    client_connections, \* BaseConnectionManager.client_connections (list)
    queue,              \* BaseConnectionManager.queue, oldest entry first
    created,            \* number of BaseClientWebSocket objects constructed
    token,              \* BaseClientWebSocket.token, Optional
    clinic_id,          \* BaseClientWebSocket.clinic_id
    uuid,               \* BaseClientWebSocket.uuid
    wb,                 \* state of the underlying websocket transport
    sent,               \* messages written to each transport, in order
    listener,           \* position of each connection in connect and __listenner
    drain,              \* position of the __process_queue thread
    wbStateReadsTransport, \* what the attribute read `wb.state` yields
    bcast,              \* the broadcast_clinic_messages call in progress
    nframes,            \* frames received so far (bounded by MaxFrames)
    nbcasts,            \* broadcasts started so far
    processed,          \* history: entries handed to __process_message
    peerClosed,         \* history: connections whose client went away
    shutdown,           \* the process has been asked to shut down
    thread,             \* the threads started by start_main_thread, in
                        \* the steps of __process_queue
    disc,               \* position of a disconnect call of the application
                        \* on each connection, taken in two steps
    last                \* history: what the last step did

vars == <<client_connections, queue, created, token, clinic_id, uuid, wb, sent,
          listener, drain, wbStateReadsTransport, bcast, nframes, nbcasts,
          processed, peerClosed, shutdown, thread, disc, last>>

(* ------------------------- BaseClientWebSocket -------------------------- *)
\* The mutable program state the methods below read and write, with the
\* exception in flight ("none" when there is none), the first exception
\* raised during the step, and whether disconnect ran in the step,
\* removed a registry entry or closed a transport.
World ==
    [client_connections |-> client_connections, token |-> token,
     clinic_id |-> clinic_id, uuid |-> uuid, wb |-> wb, sent |-> sent,
     exc |-> "none", raised |-> "none",
     discCalled |-> FALSE, removed |-> FALSE, closed |-> FALSE]

Raise(W, e) ==
    [W EXCEPT !.exc = e, !.raised = IF @ = "none" THEN e ELSE @]

\* An except clause that caught the exception in flight.
Caught(W) == [W EXCEPT !.exc = "none"]

\* wb.send_json: the frame is written when the transport is connected and
\* the call raises otherwise (RuntimeError or WebSocketDisconnect of the
\* websocket library, named TransportError here).
send_json(W, c, payload) ==
    IF W.wb[c] = "CONNECTED"
    THEN [W EXCEPT !.sent[c] = Append(@, payload)]
    ELSE Raise(W, "TransportError")

\* A send that drops the message when the transport is not connected.
send_dropping(W, c, message) ==
    IF W.exc # "none" \/ W.wb[c] # "CONNECTED" THEN W
    ELSE send_json(W, c, message)

\* BaseClientWebSocket.send: both branches end in wb.send_json; model_dump
\* keeps the field names message_type, clinic_id and data.
send(W, c, message) ==
    IF W.exc # "none" THEN W ELSE send_json(W, c, message)

\* await self.send(Message(**kw)): the constructor raises ValidationError
\* when kw does not validate, and nothing is sent then.
SendNew(W, c, kw) ==
    IF W.exc # "none" THEN W
    ELSE IF ~MessageInit(kw).ok THEN Raise(W, "ValidationError")
    ELSE send(W, c, MessageInit(kw).msg)

\* Reading self.clinic_id raises AttributeError when accept never set it
\* (the class body only annotates clinic_id).
NoClinicId(W, c) == W.clinic_id[c] = None

send_invalid_message(W, c) ==
    IF W.exc # "none" THEN W
    ELSE IF NoClinicId(W, c) THEN Raise(W, "AttributeError")
    ELSE SendNew(W, c, [messageType |-> INVALID, clinicId |-> W.clinic_id[c][1]])

send_error_message(W, c, error) ==
    IF W.exc # "none" THEN W
    ELSE IF NoClinicId(W, c) THEN Raise(W, "AttributeError")
    ELSE SendNew(W, c, [messageType |-> ERROR, clinicId |-> W.clinic_id[c][1],
                        data |-> Some(ErrorResponseSchema(error))])

\* A send_new_uuid that returns without writing anything.
send_new_uuid_unsent(W, c, uuid_code) == W

send_new_uuid(W, c, uuid_code) ==
    IF W.exc # "none" THEN W
    ELSE IF NoClinicId(W, c) THEN Raise(W, "AttributeError")
    ELSE SendNew(W, c, [messageType |-> CREATE_UUID, clinicId |-> W.clinic_id[c][1],
                        data |-> Some(CreateUUIDSchema(uuid_code))])

\* The test `wb.state == WebSocketState.CONNECTED` of close and disconnect.
\* queue.py reads the attribute `state` of the fastapi WebSocket; whether
\* that attribute is the connection state of the transport or another
\* object of the library (which never equals the enum member) is fixed by
\* the library and not by this repository: wbStateReadsTransport.
WbStateIsConnected(W, c) ==
    wbStateReadsTransport /\ W.wb[c] = "CONNECTED"

close(W, c) ==
    IF W.exc # "none" THEN W
    ELSE IF WbStateIsConnected(W, c)
         THEN [W EXCEPT !.wb[c] = "DISCONNECTED", !.closed = TRUE]
         ELSE W

(* ------------------------ BaseConnectionManager ------------------------- *)
InList(c, list) == \E i \in 1..Len(list) : list[i] = c

\* list.remove: removes the first occurrence.
RECURSIVE ListRemove(_, _)
ListRemove(list, c) ==
    IF list = <<>> THEN <<>>
    ELSE IF Head(list) = c THEN Tail(list)
    ELSE <<Head(list)>> \o ListRemove(Tail(list), c)

\* The index of the first occurrence of c in the list, 0 when absent.
IndexOf(c, list) ==
    IF InList(c, list)
    THEN CHOOSE i \in 1..Len(list) :
             list[i] = c /\ \A j \in 1..(i - 1) : list[j] # c
    ELSE 0

\* A removal by the position the membership test found.
remove_at(list, c, i) ==
    IF i \in 1..Len(list)
    THEN [ok |-> TRUE,
          list |-> SubSeq(list, 1, i - 1) \o SubSeq(list, i + 1, Len(list))]
    ELSE [ok |-> FALSE, list |-> list]

\* self.client_connections.remove(client), reached after the membership
\* test found the client at position i: remove searches the list again,
\* and raises ValueError (ok = FALSE) when the client is no longer there.
remove_found(list, c, i) ==
    IF InList(c, list)
    THEN [ok |-> TRUE, list |-> ListRemove(list, c)]
    ELSE [ok |-> FALSE, list |-> list]

\* disconnect as it would be without the removal from the list.
disconnect_keeps_entry(W, c) ==
    IF W.exc # "none" THEN W
    ELSE LET W1 == [W EXCEPT !.discCalled = TRUE]
         IN  IF WbStateIsConnected(W1, c) THEN close(W1, c) ELSE W1

disconnect(W, c) ==
    IF W.exc # "none" THEN W
    ELSE LET W1 == IF InList(c, W.client_connections)
                   THEN [W EXCEPT !.client_connections = ListRemove(@, c),
                                  !.removed = TRUE, !.discCalled = TRUE]
                   ELSE [W EXCEPT !.discCalled = TRUE]
         IN  IF WbStateIsConnected(W1, c) THEN close(W1, c) ELSE W1

\* get_connection_by_uuid: the first registered connection with that uuid.
get_connection_by_uuid(uuid_code) ==
    LET hits == {i \in 1..Len(client_connections) :
                    uuid[client_connections[i]] = Some(uuid_code)}
    IN  IF hits = {} THEN None
        ELSE Some(client_connections[CHOOSE i \in hits : \A j \in hits : i <= j])

\* A __process_connection that only tests that the payload is present.
process_connection_unchecked(W, message, c) ==
    LET body ==
            IF message.data = None
            THEN send_invalid_message(W, c)
            ELSE SendNew([W EXCEPT !.token[c] =
                            IF message.data[1].schema = "ConnectionSchema"
                            THEN Some(message.data[1].token)
                            ELSE Some(<<"u">>)], c,
                         [message_type |-> CONNECTION,
                          clinic_id |-> message.clinic_id])
    IN  IF body.exc \in {"OperationalError", "AttributeError"}
        THEN disconnect(send_error_message(Caught(body), c, "Erro ao validar conexao"), c)
        ELSE body

\* A __process_connection that treats a payload of the wrong shape as a
\* failed handshake.
process_connection_strict(W, message, c) ==
    IF message.data = None \/ message.data[1].schema # "ConnectionSchema"
    THEN disconnect(send_error_message(W, c, "Erro ao validar conexao"), c)
    ELSE SendNew([W EXCEPT !.token[c] = Some(message.data[1].token)], c,
                 [message_type |-> CONNECTION, clinic_id |-> message.clinic_id])

\* __process_connection
process_connection(W, message, c) ==
    LET body ==
            IF message.data = None \/ message.data[1].schema # "ConnectionSchema"
            THEN send_invalid_message(W, c)
            ELSE SendNew([W EXCEPT !.token[c] = Some(message.data[1].token)], c,
                         [message_type |-> CONNECTION,
                          clinic_id |-> message.clinic_id])
    IN  IF body.exc \in {"OperationalError", "AttributeError"}
        THEN disconnect(send_error_message(Caught(body), c, "Erro ao validar conexao"), c)
        ELSE body

\* `not client.token`: None and the empty string are both falsy.
NotToken(t) == t = None \/ t[1] = <<>>

\* A __process_message whose last branch disconnects like the one before.
process_message_disconnecting(W, message, c) ==
    LET body ==
            IF message.message_type = CONNECTION
            THEN process_connection(W, message, c)
            ELSE IF NotToken(W.token[c])
            THEN disconnect(send_error_message(W, c, "Token invalido"), c)
            ELSE disconnect(send_invalid_message(W, c), c)
    IN  IF body.exc \in {"AttributeError", "OperationalError"}
        THEN send_error_message(Caught(body), c, "Erro ao processar a mensagem")
        ELSE body

\* __process_message
process_message(W, message, c) ==
    LET body ==
            IF message.message_type = CONNECTION
            THEN process_connection(W, message, c)
            ELSE IF NotToken(W.token[c])
            THEN disconnect(send_error_message(W, c, "Token invalido"), c)
            ELSE send_invalid_message(W, c)
    IN  IF body.exc \in {"AttributeError", "OperationalError"}
        THEN send_error_message(Caught(body), c, "Erro ao processar a mensagem")
        ELSE body

\* A queue that would hand out the newest entry.
get_newest(q) == [item |-> q[Len(q)], rest |-> SubSeq(q, 1, Len(q) - 1)]

\* asyncio.Queue.get on a non-empty queue: the oldest entry.
get(q) == [item |-> Head(q), rest |-> Tail(q)]

\* BaseClientWebSocket.accept; client_id and uuid_code are Optional.
accept(W, c, client_id, uuid_code) ==
    IF W.exc # "none" THEN W
    ELSE IF client_id = None \/ uuid_code = None
    THEN send_error_message(W, c, "Client ID ou UUID nao informado")
    ELSE [W EXCEPT !.clinic_id[c] = client_id, !.uuid[c] = uuid_code,
                   !.wb[c] = "CONNECTED"]

\* uuid.uuid4().hex: a fresh identifier for every call; the n-th call
\* yields the identifier numbered n.
uuid4(n) == n

\* An append that runs twice for one connect.
register_twice(W, c) ==
    IF W.exc # "none" THEN W
    ELSE [W EXCEPT !.client_connections = Append(Append(@, c), c)]

\* self.client_connections.append(client_websocket)
register(W, c) ==
    IF W.exc # "none" THEN W
    ELSE [W EXCEPT !.client_connections = Append(@, c)]

\* connect up to the call of __listenner: accept, send_new_uuid, append.
connect(W, c, clinic) ==
    LET new_uuid == uuid4(c)
    IN  register(send_new_uuid(accept(W, c, clinic, Some(new_uuid)), c, new_uuid), c)

(* ------------------------------ frames ---------------------------------- *)
\* What a client may send: a text frame that is not JSON, or a JSON object.
\* The data key holds an Optional JSON object (None is JSON null).
MalformedFrame == [json |-> FALSE]
JsonFrame(obj) == [json |-> TRUE, obj |-> obj]

Frames ==
    {MalformedFrame}
    \cup {JsonFrame([messageType |-> CONNECTION, clinicId |-> 1,
                     data |-> Some([token |-> <<"a">>])]),
          JsonFrame([messageType |-> CONNECTION, clinicId |-> 2,
                     data |-> Some([token |-> <<" ">>])]),
          JsonFrame([messageType |-> CONNECTION, clinicId |-> 1]),
          JsonFrame([messageType |-> CONNECTION, clinicId |-> 1,
                     data |-> Some([uuid |-> 0])]),
          JsonFrame([messageType |-> DISCONNECT, clinicId |-> 1]),
          JsonFrame([messageType |-> 99, clinicId |-> 1]),
          JsonFrame([clinicId |-> 1])}

\* Whether __listenner can turn the frame into a Message.
Decodable(f) == f.json /\ MessageInit(f.obj).ok

\* The message broadcast_clinic_messages is given by its caller.
BroadcastMessage(k) == MessageInit([messageType |-> DISCONNECT, clinicId |-> k]).msg

(* ------------------------------- Init ----------------------------------- *)
\* A thread start_main_thread has not created yet.
NotStarted == [pos |-> "notstarted", held |-> None]

\* The number of entries taken from the queue whose processing has not
\* ended.
NumHeld == Cardinality({t \in Threads : thread[t].held # None})

IdleBroadcast ==
    [state |-> "idle", clinic |-> 0, idx |-> 0, deliv |-> [c \in Conns |-> 0],
     targets |-> {}, modified |-> FALSE, failed |-> 0]

Init ==
    /\ client_connections = <<>>
    /\ queue = <<>>
    /\ created = 0
    /\ token = [c \in Conns |-> None]
    /\ clinic_id = [c \in Conns |-> None]
    /\ uuid = [c \in Conns |-> None]
    /\ wb = [c \in Conns |-> "CONNECTING"]
    /\ sent = [c \in Conns |-> <<>>]
    /\ listener = [c \in Conns |-> "none"]
    /\ drain = "notstarted"
    /\ wbStateReadsTransport \in BOOLEAN
    /\ bcast = IdleBroadcast
    /\ nframes = 0
    /\ nbcasts = 0
    /\ processed = <<>>
    /\ peerClosed = {}
    /\ shutdown = FALSE
    /\ thread = [t \in Threads |-> NotStarted]
    /\ disc = [c \in Conns |-> [pos |-> "idle", idx |-> 0]]
    /\ last = [op |-> "init"]

(* ------------------------------ actions --------------------------------- *)
\* The program state of a world record becomes the next state.
Commit(W) ==
    /\ client_connections' = W.client_connections
    /\ token' = W.token
    /\ clinic_id' = W.clinic_id
    /\ uuid' = W.uuid
    /\ wb' = W.wb
    /\ sent' = W.sent
    /\ bcast' = IF bcast.state = "running"
                   /\ W.client_connections # client_connections
                THEN [bcast EXCEPT !.modified = TRUE]
                ELSE bcast

\* A websocket endpoint calls connect(websocket, clinic_id), taken here in
\* one step up to the receive loop.  When connect raises, the endpoint
\* fails and the server tears the socket down.
Connect(clinic) ==
    /\ created < MaxConns
    /\ LET c == created + 1
           W == connect(World, c, clinic)
           W2 == IF W.exc = "none" THEN W
                 ELSE [W EXCEPT !.wb[c] = "DISCONNECTED"]
       IN  /\ Commit(W2)
           /\ created' = c
           /\ listener' = [listener EXCEPT ![c] =
                              IF W.exc = "none" THEN "listening" ELSE "raised"]
           /\ last' = [op |-> "connect", client |-> c, exc |-> W.exc]
    /\ UNCHANGED <<queue, drain, wbStateReadsTransport, nframes, nbcasts,
                   processed, peerClosed,
                   shutdown,
                   thread, disc>>

\* connect in the steps between which the event loop may run other tasks.
\* First step: the connection object is built and accept is awaited.
ConnectAccept(clinic) ==
    /\ created < MaxConns
    /\ LET c == created + 1
           W == accept(World, c, clinic, Some(uuid4(c)))
           W2 == IF W.exc = "none" THEN W
                 ELSE [W EXCEPT !.wb[c] = "DISCONNECTED"]
       IN  /\ Commit(W2)
           /\ created' = c
           /\ listener' = [listener EXCEPT ![c] =
                              IF W.exc = "none" THEN "accepted" ELSE "raised"]
           /\ last' = IF W.exc = "none" THEN [op |-> "other"]
                      ELSE [op |-> "connect", client |-> c, exc |-> W.exc]
    /\ UNCHANGED <<queue, drain, wbStateReadsTransport, nframes, nbcasts,
                   processed, peerClosed, shutdown,
                   thread, disc>>

\* Second step: send_new_uuid(new_uuid) writes to the transport.
ConnectSendUuid(c) ==
    /\ listener[c] = "accepted"
    /\ LET W == send_new_uuid(World, c, uuid[c][1])
           W2 == IF W.exc = "none" THEN W
                 ELSE [W EXCEPT !.wb[c] = "DISCONNECTED"]
       IN  /\ Commit(W2)
           /\ listener' = [listener EXCEPT ![c] =
                              IF W.exc = "none" THEN "uuid_sent" ELSE "raised"]
           /\ last' = IF W.exc = "none" THEN [op |-> "other"]
                      ELSE [op |-> "connect", client |-> c, exc |-> W.exc]
    /\ UNCHANGED <<queue, created, drain, wbStateReadsTransport, nframes,
                   nbcasts, processed, peerClosed, shutdown,
                   thread, disc>>

\* Third step: the connection is appended to client_connections and
\* connect enters __listenner.
ConnectRegister(c) ==
    /\ listener[c] = "uuid_sent"
    /\ Commit(register(World, c))
    /\ listener' = [listener EXCEPT ![c] = "listening"]
    /\ last' = [op |-> "connect", client |-> c, exc |-> "none"]
    /\ UNCHANGED <<queue, created, drain, wbStateReadsTransport, nframes,
                   nbcasts, processed, peerClosed, shutdown,
                   thread, disc>>

\* One iteration of the while loop of __listenner on a received frame.
\* receive_json raises on a frame that is not JSON, outside the inner try;
\* the only except clause of the outer try is WebSocketDisconnect, so the
\* error leaves __listenner and connect, and the server tears the socket
\* down when the endpoint fails.
ListenerReceive(c, f) ==
    /\ listener[c] = "listening"
    /\ wb[c] = "CONNECTED"
    /\ nframes < MaxFrames
    /\ nframes' = nframes + 1
    /\ LET r == IF f.json THEN MessageInit(f.obj) ELSE [ok |-> FALSE]
           W == IF ~f.json THEN Raise(World, "JSONDecodeError")
                ELSE IF r.ok THEN World
                ELSE send_invalid_message(World, c)
           W2 == IF W.exc = "none" THEN W
                 ELSE [W EXCEPT !.wb[c] = "DISCONNECTED"]
       IN  /\ Commit(W2)
           /\ queue' = IF f.json /\ r.ok
                       THEN Append(queue, [client |-> c, message |-> r.msg,
                                           seq |-> Len(processed) + NumHeld
                                                   + Len(queue) + 1])
                       ELSE queue
           /\ listener' = [listener EXCEPT ![c] =
                              IF W.exc = "none" THEN "listening" ELSE "raised"]
           /\ last' = [op |-> "receive", client |-> c, frame |-> f,
                       regBefore |-> InList(c, client_connections),
                       nsentBefore |-> Len(sent[c]),
                       enqueued |-> f.json /\ r.ok, exc |-> W.exc]
    /\ UNCHANGED <<created, drain, wbStateReadsTransport, nbcasts, processed,
                   peerClosed,
                   shutdown,
                   thread, disc>>

\* The client goes away: the transport is no longer connected.
ClientClose(c) ==
    /\ listener[c] \in {"accepted", "uuid_sent", "listening"}
    /\ wb[c] = "CONNECTED"
    /\ Cardinality(peerClosed) < MaxCloses
    /\ wb' = [wb EXCEPT ![c] = "DISCONNECTED"]
    /\ peerClosed' = peerClosed \cup {c}
    /\ last' = [op |-> "other"]
    /\ UNCHANGED <<client_connections, queue, created, token, clinic_id, uuid,
                   sent, listener, drain, wbStateReadsTransport, bcast, nframes,
                   nbcasts, processed,
                   shutdown,
                   thread, disc>>

\* receive_json raises WebSocketDisconnect; the handler evaluates
\* self.disconnect(websocket_client) without awaiting it, which creates a
\* coroutine object that never runs.
ListenerDisconnect(c) ==
    /\ listener[c] = "listening"
    /\ wb[c] = "DISCONNECTED"
    /\ listener' = [listener EXCEPT ![c] = "exited"]
    /\ last' = [op |-> "other"]
    /\ UNCHANGED <<client_connections, queue, created, token, clinic_id, uuid,
                   wb, sent, drain, wbStateReadsTransport, bcast, nframes,
                   nbcasts, processed, peerClosed,
                   shutdown,
                   thread, disc>>

\* The application awaits disconnect(client) on a connection it holds.
CallDisconnect(c) ==
    /\ c \in 1..created
    /\ clinic_id[c] # None
    /\ LET W == disconnect(World, c)
       IN  /\ Commit(W)
           /\ last' = [op |-> "disconnect", client |-> c,
                       regBefore |-> InList(c, client_connections),
                       discCalled |-> W.discCalled, removed |-> W.removed,
                       closed |-> W.closed, exc |-> W.exc]
    /\ UNCHANGED <<queue, created, listener, drain, wbStateReadsTransport,
                   nframes, nbcasts, processed, peerClosed,
                   shutdown,
                   thread, disc>>

\* start_main_thread: the thread that runs __process_queue.
StartMainThread ==
    /\ drain = "notstarted"
    /\ drain' = "check"
    /\ last' = [op |-> "other"]
    /\ UNCHANGED <<client_connections, queue, created, token, clinic_id, uuid,
                   wb, sent, listener, wbStateReadsTransport, bcast, nframes,
                   nbcasts, processed, peerClosed,
                   shutdown,
                   thread, disc>>

\* __process_queue with a non-empty queue: get, __process_message, then
\* asyncio.sleep(1).  An exception leaving __process_message leaves the
\* while loop, run_until_complete and the thread.
DrainProcess ==
    /\ drain = "check"
    /\ queue # <<>>
    /\ LET e == get(queue).item
           c == e.client
           W == process_message(World, e.message, c)
       IN  /\ Commit(W)
           /\ queue' = get(queue).rest
           /\ processed' = Append(processed, [seq |-> e.seq, client |-> c])
           /\ drain' = IF W.exc = "none" THEN "sleep" ELSE "dead"
           /\ last' = [op |-> "process", client |-> c, message |-> e.message,
                       tokenBefore |-> token[c],
                       regBefore |-> InList(c, client_connections),
                       wbBefore |-> wb[c],
                       nsentBefore |-> Len(sent[c]),
                       discCalled |-> W.discCalled, removed |-> W.removed,
                       closed |-> W.closed,
                       raised |-> W.raised, exc |-> W.exc]
    /\ UNCHANGED <<created, listener, wbStateReadsTransport, nframes, nbcasts,
                   peerClosed,
                   shutdown,
                   thread, disc>>

\* __process_queue with an empty queue: straight to asyncio.sleep(1).
DrainIdle ==
    /\ drain = "check"
    /\ queue = <<>>
    /\ drain' = "sleep"
    /\ last' = [op |-> "other"]
    /\ UNCHANGED <<client_connections, queue, created, token, clinic_id, uuid,
                   wb, sent, listener, wbStateReadsTransport, bcast, nframes,
                   nbcasts, processed, peerClosed,
                   shutdown,
                   thread, disc>>

\* asyncio.sleep(1) returns and the loop checks the queue again.
DrainWake ==
    /\ drain = "sleep"
    /\ drain' = "check"
    /\ last' = [op |-> "other"]
    /\ UNCHANGED <<client_connections, queue, created, token, clinic_id, uuid,
                   wb, sent, listener, wbStateReadsTransport, bcast, nframes,
                   nbcasts, processed, peerClosed,
                   shutdown,
                   thread, disc>>

(* ------------- disconnect on the main thread, step by step -------------- *)
\* The drain threads run in parallel with the thread of the main event
\* loop, so another thread may act between the membership test of
\* disconnect and its remove.  First step: `client in client_connections`;
\* when the client is absent the call goes on to the test of wb.state.
DisconnectTest(c) ==
    /\ c \in 1..created
    /\ clinic_id[c] # None
    /\ disc[c].pos = "idle"
    /\ IF InList(c, client_connections)
       THEN /\ disc' = [disc EXCEPT ![c] =
                          [pos |-> "found", idx |-> IndexOf(c, client_connections)]]
            /\ UNCHANGED <<client_connections, token, clinic_id, uuid, wb, sent,
                           bcast>>
       ELSE /\ disc' = [disc EXCEPT ![c].pos = "done"]
            /\ Commit(close(World, c))
    /\ last' = [op |-> "other"]
    /\ UNCHANGED <<queue, created, listener, drain, wbStateReadsTransport,
                   nframes, nbcasts, processed, peerClosed, shutdown, thread>>

\* Second step: remove, which raises ValueError when a drain thread has
\* removed the client since the test, and then the test of wb.state.
DisconnectRemove(c) ==
    /\ disc[c].pos = "found"
    /\ LET r == remove_found(client_connections, c, disc[c].idx)
       IN  IF r.ok
           THEN /\ disc' = [disc EXCEPT ![c].pos = "done"]
                /\ Commit(close([World EXCEPT !.client_connections = r.list], c))
           ELSE /\ disc' = [disc EXCEPT ![c].pos = "raised"]
                /\ UNCHANGED <<client_connections, token, clinic_id, uuid, wb,
                               sent, bcast>>
    /\ last' = [op |-> "other"]
    /\ UNCHANGED <<queue, created, listener, drain, wbStateReadsTransport,
                   nframes, nbcasts, processed, peerClosed, shutdown, thread>>

(* ------------------- __process_queue on several threads ------------------ *)
\* start_main_thread has no guard: every call creates a Thread that runs
\* __process_queue on an event loop of its own.  The threads run in
\* parallel, so the loop is taken in the steps between which another
\* thread may act: the test of queue.empty(), queue.get(),
\* __process_message.  A thread that finds the queue empty sleeps and
\* tests again.
AfterTest == IF queue = <<>> THEN "sleep" ELSE "get"

\* The thread starts and tests the queue for the first time.
ThreadStart(t) ==
    /\ thread[t].pos = "notstarted"
    /\ \A u \in Threads : u < t => thread[u].pos # "notstarted"
    /\ thread' = [thread EXCEPT ![t].pos = AfterTest]
    /\ last' = [op |-> "other"]
    /\ UNCHANGED <<client_connections, queue, created, token, clinic_id, uuid,
                   wb, sent, listener, drain, wbStateReadsTransport, bcast,
                   nframes, nbcasts, processed, peerClosed, shutdown, disc>>

\* asyncio.sleep(1) returns and `if not self.queue.empty()` finds an entry.
ThreadWake(t) ==
    /\ thread[t].pos = "sleep"
    /\ queue # <<>>
    /\ thread' = [thread EXCEPT ![t].pos = AfterTest]
    /\ last' = [op |-> "other"]
    /\ UNCHANGED <<client_connections, queue, created, token, clinic_id, uuid,
                   wb, sent, listener, drain, wbStateReadsTransport, bcast,
                   nframes, nbcasts, processed, peerClosed, shutdown, disc>>

\* `await self.queue.get()`: takes the oldest entry; on a queue that
\* another thread has emptied since the test, the call waits.
ThreadGet(t) ==
    /\ thread[t].pos = "get"
    /\ queue # <<>>
    /\ thread' = [thread EXCEPT ![t] = [pos |-> "got", held |-> Some(get(queue).item)]]
    /\ queue' = get(queue).rest
    /\ last' = [op |-> "other"]
    /\ UNCHANGED <<client_connections, created, token, clinic_id, uuid,
                   wb, sent, listener, drain, wbStateReadsTransport, bcast,
                   nframes, nbcasts, processed, peerClosed, shutdown, disc>>

\* `await self.__process_message(message, websocket)` on the entry taken;
\* an exception that leaves it ends the thread.
ThreadProcess(t) ==
    /\ thread[t].pos = "got"
    /\ LET e == thread[t].held[1]
           c == e.client
           W == process_message(World, e.message, c)
       IN  /\ Commit(W)
           /\ processed' = Append(processed, [seq |-> e.seq, client |-> c])
           /\ thread' = [thread EXCEPT ![t] =
                            [pos |-> IF W.exc = "none" THEN "sleep" ELSE "dead",
                             held |-> None]]
           /\ last' = [op |-> "process", client |-> c, message |-> e.message,
                       tokenBefore |-> token[c],
                       regBefore |-> InList(c, client_connections),
                       wbBefore |-> wb[c],
                       nsentBefore |-> Len(sent[c]),
                       discCalled |-> W.discCalled, removed |-> W.removed,
                       closed |-> W.closed,
                       raised |-> W.raised, exc |-> W.exc]
    /\ UNCHANGED <<queue, created, listener, drain, wbStateReadsTransport,
                   nframes, nbcasts, peerClosed, shutdown, disc>>

(* ---------------------- broadcast_clinic_messages ----------------------- *)
\* A loop body that would not test the clinic id.
BroadcastTargetAny(c, clinic) == TRUE

\* The test of the loop body: client_connection.clinic_id == clinic_id.
BroadcastTarget(c, clinic) == clinic_id[c] = Some(clinic)

\* The call starts: the for loop creates an iterator over the live list.
BroadcastStart(clinic) ==
    /\ bcast.state # "running"
    /\ nbcasts < MaxBroadcasts
    /\ nbcasts' = nbcasts + 1
    /\ bcast' = [state |-> "running", clinic |-> clinic, idx |-> 1,
                 deliv |-> [c \in Conns |-> 0],
                 targets |-> {c \in Conns : /\ InList(c, client_connections)
                                            /\ clinic_id[c] = Some(clinic)},
                 modified |-> FALSE, failed |-> 0]
    /\ last' = [op |-> "other"]
    /\ UNCHANGED <<client_connections, queue, created, token, clinic_id, uuid,
                   wb, sent, listener, drain, wbStateReadsTransport, nframes,
                   processed, peerClosed,
                   shutdown,
                   thread, disc>>

\* One round of the for loop: the iterator yields the element at its index
\* of the live list, or the loop ends; a matching element is sent the
\* message, and an exception of send leaves the loop and the call.
BroadcastStep ==
    /\ bcast.state = "running"
    /\ IF bcast.idx > Len(client_connections)
       THEN /\ bcast' = [bcast EXCEPT !.state = "done"]
            /\ UNCHANGED <<sent>>
       ELSE LET c == client_connections[bcast.idx]
                W == IF BroadcastTarget(c, bcast.clinic)
                     THEN send(World, c, BroadcastMessage(bcast.clinic))
                     ELSE World
            IN  /\ sent' = W.sent
                /\ bcast' = IF W.exc # "none"
                            THEN [bcast EXCEPT !.state = "raised", !.failed = c]
                            ELSE [bcast EXCEPT
                                    !.idx = @ + 1,
                                    !.deliv[c] = @ + Len(W.sent[c]) - Len(sent[c])]
    /\ last' = [op |-> "other"]
    /\ UNCHANGED <<client_connections, queue, created, token, clinic_id, uuid,
                   wb, listener, drain, wbStateReadsTransport, nframes, nbcasts,
                   processed, peerClosed,
                   shutdown,
                   thread, disc>>

\* The process is asked to shut down.  BaseConnectionManager registers no
\* handler for it and start_main_thread keeps no handle on its thread, so
\* the request changes nothing the program reads.
Shutdown ==
    /\ ~shutdown
    /\ shutdown' = TRUE
    /\ last' = [op |-> "other"]
    /\ UNCHANGED <<client_connections, queue, created, token, clinic_id, uuid,
                   wb, sent, listener, drain, wbStateReadsTransport, bcast,
                   nframes, nbcasts, processed, peerClosed,
                   thread, disc>>

(* ---------------------------- specification ----------------------------- *)
\* Connections, their receive loops and the drain thread.  The clinic id
\* of a connection is only echoed by the queue side, so one value is enough
\* here; the frames carry that value or another one.
QueueClinicIds == {1}

Next ==
    \/ \E k \in QueueClinicIds : Connect(Some(k))
    \/ \E c \in Conns, f \in Frames : ListenerReceive(c, f)
    \/ \E c \in Conns : ClientClose(c)
    \/ \E c \in Conns : ListenerDisconnect(c)
    \/ StartMainThread
    \/ DrainProcess
    \/ DrainIdle
    \/ DrainWake

Spec == Init /\ [][Next]_vars

\* Connections and the registry operations the application calls.  The
\* exit of a receive loop changes nothing these operations read, and is
\* left to Spec.
NextRegistry ==
    \/ \E k \in ClinicIds : Connect(Some(k))
    \/ \E c \in Conns : ClientClose(c)
    \/ \E c \in Conns : CallDisconnect(c)
    \/ \E clinic \in ClinicIds : BroadcastStart(clinic)
    \/ BroadcastStep

SpecRegistry == Init /\ [][NextRegistry]_vars

\* connect taken step by step, for any clinic_id argument the endpoint may
\* pass, next to the receive loops.
ConnectArgs == {None} \cup {Some(k) : k \in ClinicIds}

\* The frames that matter while a connection is being set up: one that is
\* enqueued and one that is answered.
ConnectFrames ==
    {JsonFrame([messageType |-> DISCONNECT, clinicId |-> 1]),
     JsonFrame([clinicId |-> 1])}

NextConnect ==
    \/ \E clinic \in ConnectArgs : ConnectAccept(clinic)
    \/ \E c \in Conns : ConnectSendUuid(c)
    \/ \E c \in Conns : ConnectRegister(c)
    \/ \E c \in Conns, f \in ConnectFrames : ListenerReceive(c, f)
    \/ \E c \in Conns : ClientClose(c)

SpecConnect == Init /\ [][NextConnect]_vars

\* The drain thread on its own: the frames that reach the queue are the
\* ones __listenner can decode, and the exit of a receive loop changes
\* nothing the drain thread reads.
DrainFrames == {f \in Frames : Decodable(f)}

NextDrain ==
    \/ \E k \in QueueClinicIds : Connect(Some(k))
    \/ \E c \in Conns, f \in DrainFrames : ListenerReceive(c, f)
    \/ \E c \in Conns : ClientClose(c)
    \/ StartMainThread
    \/ DrainProcess
    \/ DrainIdle
    \/ DrainWake

SpecDrain == Init /\ [][NextDrain]_vars

\* start_main_thread called any number of times: the threads it creates
\* and the receive loops that feed them.  The frames are a handshake, a
\* handshake whose token is blank, and a message of another type.
ThreadFrames ==
    {JsonFrame([messageType |-> CONNECTION, clinicId |-> 1,
                data |-> Some([token |-> <<"a">>])]),
     JsonFrame([messageType |-> CONNECTION, clinicId |-> 2,
                data |-> Some([token |-> <<" ">>])]),
     JsonFrame([messageType |-> DISCONNECT, clinicId |-> 1])}

NextThreads ==
    \/ \E k \in QueueClinicIds : Connect(Some(k))
    \/ \E c \in Conns, f \in ThreadFrames : ListenerReceive(c, f)
    \/ \E t \in Threads : ThreadStart(t)
    \/ \E t \in Threads : ThreadGet(t)
    \/ \E t \in Threads : ThreadProcess(t)
    \/ \E t \in Threads : ThreadWake(t)

SpecThreads == Init /\ [][NextThreads]_vars

\* The registry and the queue under the two threads that share them:
\* connect and disconnect calls and receive loops on the main thread,
\* force disconnects on one drain thread.  Every frame is a message
\* without token, which the drain thread answers with a disconnect.
SharedFrames == {JsonFrame([messageType |-> DISCONNECT, clinicId |-> 1])}

NextShared ==
    \/ \E k \in QueueClinicIds : Connect(Some(k))
    \/ \E c \in Conns, f \in SharedFrames : ListenerReceive(c, f)
    \/ \E c \in Conns : DisconnectTest(c)
    \/ \E c \in Conns : DisconnectRemove(c)
    \/ ThreadStart(1)
    \/ ThreadGet(1)
    \/ ThreadProcess(1)
    \/ ThreadWake(1)

SpecShared == Init /\ [][NextShared]_vars

\* The drain thread and a shutdown request.  The thread is an operating
\* system thread with its own event loop: it keeps being scheduled, so each
\* of its steps is taken when it stays possible.
NextShutdown ==
    \/ \E k \in QueueClinicIds : Connect(Some(k))
    \/ \E c \in Conns, f \in DrainFrames : ListenerReceive(c, f)
    \/ StartMainThread
    \/ DrainProcess
    \/ DrainIdle
    \/ DrainWake
    \/ Shutdown

SpecShutdown ==
    /\ Init
    /\ [][NextShutdown]_vars
    /\ WF_vars(DrainProcess)
    /\ WF_vars(DrainIdle)
    /\ WF_vars(DrainWake)

(* ------------------------------- claims --------------------------------- *)
IsHandshake(m) ==
    /\ m.message_type = CONNECTION
    /\ m.data # None
    /\ m.data[1].schema = "ConnectionSchema"

\* The messages the last step wrote to connection c.
SentByLastStep(c) == SubSeq(sent[c], last.nsentBefore + 1, Len(sent[c]))

Count(seq, type) == Cardinality({i \in 1..Len(seq) : seq[i].message_type = type})

\* C1: when the drain loop processes a well-formed handshake from a
\* registered, open connection that has no token, the connection is sent
\* exactly one CONNECTION acknowledgement carrying its clinic id, its token
\* becomes the handshake token, and it stays registered and open.
C1_HandshakeProcessed ==
    /\ last.op = "process"
    /\ IsHandshake(last.message)
    /\ last.regBefore
    /\ last.wbBefore = "CONNECTED"
    /\ last.tokenBefore = None

C1_HandshakeAcknowledged ==
    C1_HandshakeProcessed =>
        LET c == last.client
        IN  /\ SentByLastStep(c) = <<[message_type |-> CONNECTION,
                                      clinic_id |-> clinic_id[c][1],
                                      data |-> None]>>
            /\ token[c] = Some(last.message.data[1].token)
            /\ InList(c, client_connections)
            /\ wb[c] = "CONNECTED"

\* C2: no error raised while a queued message is processed terminates the
\* drain loop: once started, the drain task is still running.
C2_DrainNeverTerminates == drain # "dead"

\* C3: each non-handshake message of a registered connection without token
\* results in exactly one ERROR to it, followed by its removal from the
\* registry and the closure of its transport; a connection is sent at most
\* one ERROR in total, and no send is attempted on a transport that
\* disconnect has closed.
C3_UnauthenticatedRejectedOnce ==
    /\ (/\ last.op = "process"
        /\ last.message.message_type # CONNECTION
        /\ last.regBefore
        /\ last.wbBefore = "CONNECTED"
        /\ last.tokenBefore = None)
       => LET c == last.client
          IN  /\ Len(SentByLastStep(c)) = 1
              /\ Count(SentByLastStep(c), ERROR) = 1
              /\ ~InList(c, client_connections)
              /\ wb[c] = "DISCONNECTED"
    /\ \A c \in Conns : Count(sent[c], ERROR) <= 1
    /\ (/\ last.op = "process"
        /\ last.wbBefore = "DISCONNECTED"
        /\ last.client \notin peerClosed)
       => last.raised # "TransportError"

\* C4: when a receive loop has observed a transport-level disconnect and
\* exited, the connection is no longer in the registry.
C4_ExitedListenerUnregistered ==
    \A c \in Conns : listener[c] = "exited" => ~InList(c, client_connections)

C6_BroadcastBestEffort ==
    (bcast.state = "raised" /\ ~bcast.modified) =>
        \A c \in bcast.targets \ {bcast.failed} :
            wb[c] = "CONNECTED" => bcast.deliv[c] >= 1

\* C7: a broadcast during which no send fails and the registry is not
\* modified delivers the message exactly once to every registered
\* connection of the clinic and nothing to any other connection.
C7_BroadcastExactlyOnce ==
    (bcast.state = "done" /\ ~bcast.modified) =>
        \A c \in Conns : bcast.deliv[c] = IF c \in bcast.targets THEN 1 ELSE 0

C7_Witness ==
    /\ bcast.state = "done"
    /\ ~bcast.modified
    /\ Cardinality(bcast.targets) = 2
    /\ \A c \in bcast.targets : bcast.deliv[c] = 1

\* C8: a frame that cannot be decoded as a Message gets the connection
\* exactly one INVALID message, enqueues nothing, leaves the connection
\* registered and open, and the receive loop goes on.
C8_BadFrameAnsweredInvalid ==
    (last.op = "receive" /\ ~Decodable(last.frame)) =>
        LET c == last.client
        IN  /\ Len(SentByLastStep(c)) = 1
            /\ Count(SentByLastStep(c), INVALID) = 1
            /\ ~last.enqueued
            /\ last.regBefore => InList(c, client_connections)
            /\ wb[c] = "CONNECTED"
            /\ listener[c] = "listening"

\* C9: once disconnect has run on a connection, get_connection_by_uuid of
\* its uuid returns None, and a disconnect call on a connection that is no
\* longer registered raises nothing, removes no entry and closes nothing.
C9_DisconnectIdempotent ==
    last.op = "disconnect" =>
        /\ get_connection_by_uuid(uuid[last.client][1]) = None
        /\ ~last.regBefore =>
              /\ last.exc = "none"
              /\ ~last.removed
              /\ ~last.closed

C9_Witness ==
    /\ last.op = "disconnect"
    /\ ~last.regBefore
    /\ wbStateReadsTransport
    /\ wb[last.client] = "DISCONNECTED"
    /\ last.client \notin peerClosed

\* C10: a failure raised while __process_message handles a message does not
\* leave __process_message, and the client is sent one ERROR message.
C10_FailureReportedAtBoundary ==
    (last.op = "process" /\ last.raised # "none") =>
        /\ last.exc = "none"
        /\ Count(SentByLastStep(last.client), ERROR) = 1

\* The CREATE_UUID message that carries the correlation id of connection c.
NewUuidMessage(c) ==
    MessageInit([messageType |-> CREATE_UUID, clinicId |-> clinic_id[c][1],
                 data |-> Some(CreateUUIDSchema(uuid[c][1]))]).msg

\* Connection c has a message in the queue.
HasQueued(c) == \E i \in 1..Len(queue) : queue[i].client = c

\* C11: a connection accepted with a clinic id has left CONNECTING; the
\* first message written to it is CREATE_UUID carrying its own correlation
\* id, no second CREATE_UUID is ever written, and a connection that is
\* registered, or whose frames are read or enqueued, has been written its
\* CREATE_UUID before.
C11_UuidSentFirst ==
    \A c \in Conns :
        /\ clinic_id[c] # None => wb[c] # "CONNECTING"
        /\ wb[c] = "CONNECTED" => clinic_id[c] # None /\ uuid[c] = Some(uuid4(c))
        /\ sent[c] # <<>> => sent[c][1] = NewUuidMessage(c)
        /\ Count(sent[c], CREATE_UUID) <= 1
        /\ (\/ InList(c, client_connections)
            \/ listener[c] \in {"uuid_sent", "listening", "exited"}
            \/ HasQueued(c)
            \/ (last.op = "receive" /\ last.client = c))
           => Count(sent[c], CREATE_UUID) = 1

\* A connection was written its CREATE_UUID, then registered, then answered
\* a frame, while another one is between accept and send_new_uuid.
C11_Witness ==
    \E c, d \in Conns :
        /\ InList(c, client_connections)
        /\ Len(sent[c]) = 2
        /\ sent[c][2].message_type = INVALID
        /\ listener[d] = "accepted"
        /\ sent[d] = <<>>

\* C12: a connection whose accept was given no clinic id has been sent one
\* ERROR message and is closed; it is not registered and has no receive
\* loop.
C12_AbsentIdRejected ==
    \A c \in 1..created :
        clinic_id[c] = None =>
            /\ Count(sent[c], ERROR) = 1
            /\ wb[c] = "DISCONNECTED"
            /\ ~InList(c, client_connections)
            /\ listener[c] \notin {"uuid_sent", "listening"}

\* C13: a connection on which a send failed at the transport (a send of
\* broadcast_clinic_messages, or a send made while its message was
\* processed) or whose receive loop ended on a failed read is no longer in
\* the registry.
C13_FailedTransportRemoved ==
    /\ bcast.state = "raised" => ~InList(bcast.failed, client_connections)
    /\ (last.op = "process" /\ last.raised = "TransportError")
           => ~InList(last.client, client_connections)
    /\ \A c \in Conns :
           listener[c] \in {"exited", "raised"} => ~InList(c, client_connections)

\* C14: processing a dequeued message whose connection was closed or
\* removed from the registry after the message was enqueued raises
\* nothing, writes nothing to the connection and leaves the registry as it
\* was.
C14_StaleMessageIgnored ==
    (/\ last.op = "process"
     /\ (~last.regBefore \/ last.wbBefore # "CONNECTED"))
       => /\ last.raised = "none"
          /\ last.exc = "none"
          /\ SentByLastStep(last.client) = <<>>
          /\ ~last.removed

\* C15: no two entries of client_connections are the same connection
\* object, and no two entries carry the same correlation id.
C15_RegistryUnique ==
    \A i, j \in 1..Len(client_connections) :
        i # j => /\ client_connections[i] # client_connections[j]
                 /\ uuid[client_connections[i]] # uuid[client_connections[j]]

\* Two connections are registered at once.
C15_Witness ==
    /\ Len(client_connections) = 2
    /\ client_connections[1] # client_connections[2]

\* C16: the token of a connection goes from absent (None or empty) to
\* present only in the step in which the drain thread processes a
\* CONNECTION message of that same connection whose payload is a
\* ConnectionSchema, and the new token is the one of that payload.
C16_TokenSetByOwnHandshake ==
    [][\A c \in Conns :
          (NotToken(token[c]) /\ ~NotToken(token'[c])) =>
              /\ drain = "check"
              /\ queue # <<>>
              /\ get(queue).item.client = c
              /\ IsHandshake(get(queue).item.message)
              /\ token'[c] = Some(get(queue).item.message.data[1].token)]_vars

\* A handshake gave a token to a connection that had none, while another
\* connection is registered without one.
C16_Witness ==
    /\ last.op = "process"
    /\ IsHandshake(last.message)
    /\ NotToken(last.tokenBefore)
    /\ ~NotToken(token[last.client])
    /\ \E d \in Conns : /\ d # last.client
                        /\ InList(d, client_connections)
                        /\ token[d] = None

\* C17: when processing the CONNECTION message of a registered, open
\* connection raised an error, the connection was sent exactly one ERROR
\* message and is afterwards neither registered nor open.
C17_FailedHandshakeDisconnected ==
    (/\ last.op = "process"
     /\ last.message.message_type = CONNECTION
     /\ last.regBefore
     /\ last.wbBefore = "CONNECTED"
     /\ last.raised # "none")
       => /\ Count(SentByLastStep(last.client), ERROR) = 1
          /\ ~InList(last.client, client_connections)
          /\ wb[last.client] # "CONNECTED"

\* C18: the drain thread is never ended by the message of one connection
\* while a message of another connection, whose transport is still open,
\* waits in the queue: such a message could never be handed to
\* __process_message any more.
C18_FailureContained ==
    drain = "dead" =>
        \A i \in 1..Len(queue) :
            ~(/\ queue[i].client # processed[Len(processed)].client
              /\ wb[queue[i].client] = "CONNECTED")

\* C19: a send to a connection whose transport is not connected raises a
\* transport error that reaches the caller and writes nothing: processing
\* a message that leads to a send (any message but a well-formed
\* handshake, whose acknowledgement fails before send is called) on such a
\* connection ends with that error and leaves the connection's log of
\* written messages as it was.
C19_SendOnClosedRaises ==
    (/\ last.op = "process"
     /\ last.wbBefore # "CONNECTED"
     /\ ~IsHandshake(last.message))
       => /\ last.raised = "TransportError"
          /\ last.exc = "TransportError"
          /\ SentByLastStep(last.client) = <<>>

\* A message was processed after its connection's transport had closed.
C19_Witness ==
    /\ last.op = "process"
    /\ last.wbBefore = "DISCONNECTED"
    /\ ~IsHandshake(last.message)
    /\ last.exc = "TransportError"

\* C20: once the process has been asked to shut down, the drain loop
\* eventually is no longer running (it was never started, or it has left
\* its while loop).
C20_ShutdownStopsDrain ==
    shutdown ~> drain \notin {"check", "sleep"}

\* The drain thread is about to process the oldest entry of the queue.
Dequeues == drain = "check" /\ queue # <<>> /\ processed' # processed

\* The INVALID message send_invalid_message builds for connection c.
InvalidMessage(c) ==
    MessageInit([messageType |-> INVALID, clinicId |-> clinic_id[c][1]]).msg

\* C21: processing a CONNECTION message whose payload is not a
\* ConnectionSchema (absent, or of another shape), from a connection whose
\* transport is open, writes exactly one INVALID message to the connection
\* and leaves its token, clinic id, correlation id, registry membership
\* and transport state as they were.
C21_BadHandshakeAnsweredInvalid ==
    [][(/\ Dequeues
        /\ get(queue).item.message.message_type = CONNECTION
        /\ ~IsHandshake(get(queue).item.message)
        /\ wb[get(queue).item.client] = "CONNECTED")
         => LET c == get(queue).item.client
            IN  /\ sent'[c] = Append(sent[c], InvalidMessage(c))
                /\ token' = token
                /\ clinic_id' = clinic_id
                /\ uuid' = uuid
                /\ client_connections' = client_connections
                /\ wb' = wb
                /\ drain' = "sleep"]_vars

\* A handshake that carried a uuid payload was processed on an open
\* connection.
C21_Witness ==
    /\ last.op = "process"
    /\ last.message.message_type = CONNECTION
    /\ last.message.data # None
    /\ ~IsHandshake(last.message)
    /\ last.wbBefore = "CONNECTED"
    /\ Count(SentByLastStep(last.client), INVALID) = 1

\* C22: processing a message that is not a CONNECTION message, from a
\* connection that holds a non-empty token and whose transport is open,
\* writes exactly one INVALID message to it, raises nothing, and leaves
\* its registry membership, transport and token as they were.
C22_AuthenticatedAnsweredInvalid ==
    (/\ last.op = "process"
     /\ last.message.message_type # CONNECTION
     /\ ~NotToken(last.tokenBefore)
     /\ last.wbBefore = "CONNECTED")
       => /\ SentByLastStep(last.client) = <<InvalidMessage(last.client)>>
          /\ last.exc = "none"
          /\ InList(last.client, client_connections) = last.regBefore
          /\ ~last.discCalled
          /\ wb[last.client] = "CONNECTED"
          /\ token[last.client] = last.tokenBefore

\* A registered connection that holds a token had a message of another
\* type processed.
C22_Witness ==
    /\ last.op = "process"
    /\ last.message.message_type = DISCONNECT
    /\ ~NotToken(last.tokenBefore)
    /\ last.wbBefore = "CONNECTED"
    /\ last.regBefore
    /\ InList(last.client, client_connections)

\* The threads that have taken an entry and have not finished processing it.
Processing == {t \in Threads : thread[t].pos = "got"}

\* C23: at most one dequeued entry is being processed at any time, and no
\* entry is handed to __process_message twice: the sequence numbers of the
\* entries processed and of the entries being processed are all different.
C23_OneAtATime ==
    /\ Cardinality(Processing) <= 1
    /\ \A i, j \in 1..Len(processed) :
           i # j => processed[i].seq # processed[j].seq
    /\ \A t \in Processing, i \in 1..Len(processed) :
           thread[t].held[1].seq # processed[i].seq

\* The sequence numbers of the entries in the queue, of the entries a
\* thread holds and of the entries processed, in one sequence.
EntrySeqs ==
    [i \in 1..Len(processed) |-> processed[i].seq]
    \o [i \in 1..Len(queue) |-> queue[i].seq]

HeldSeqs == {thread[t].held[1].seq : t \in {u \in Threads : thread[u].held # None}}

\* C24: with the main thread and a drain thread acting on the registry and
\* the queue in any interleaving, no connection is registered twice, a
\* connection on which no disconnect has acted is still registered, a
\* connection whose disconnect completed is not, and every entry put on
\* the queue is exactly once in the queue, held by the thread or processed.
C24_SharedStructuresConsistent ==
    /\ \A i, j \in 1..Len(client_connections) :
           i # j => client_connections[i] # client_connections[j]
    /\ \A c \in 1..created :
           (/\ disc[c].pos \in {"idle", "found"}
            /\ \A i \in 1..Len(processed) : processed[i].client # c)
             => InList(c, client_connections)
    /\ \A c \in Conns :
           disc[c].pos = "done" => ~InList(c, client_connections)
    /\ \A i, j \in 1..Len(EntrySeqs) : i # j => EntrySeqs[i] # EntrySeqs[j]
    /\ {EntrySeqs[i] : i \in 1..Len(EntrySeqs)} \cap HeldSeqs = {}
    /\ {EntrySeqs[i] : i \in 1..Len(EntrySeqs)} \cup HeldSeqs = 1..nframes
    /\ Cardinality(HeldSeqs) = NumHeld

\* The drain thread removed a connection between the membership test and
\* the remove of a disconnect call on the main thread, while another
\* connection is registered.
C24_Witness ==
    \E c, d \in Conns :
        /\ disc[c].pos = "raised"
        /\ d # c
        /\ InList(d, client_connections)

\* C25: no frame is put on the queue by the receive loop of a connection
\* that a force disconnect has removed from the registry (in this
\* specification nothing else removes a connection), and right after a
\* force disconnect the receive loop can take no further frame.
C25_NoEnqueueAfterForcedDisconnect ==
    /\ (last.op = "receive" /\ last.enqueued) => last.regBefore
    /\ (last.op = "process" /\ last.discCalled /\ last.exc = "none")
          => ~(listener[last.client] = "listening" /\ wb[last.client] = "CONNECTED")

\* C26: the drain loop sleeps only after it found the queue empty: when
\* an entry has been processed without error and the queue is not empty,
\* the loop is at its test of the queue again, not in asyncio.sleep.
C26_NoWaitWhileNonEmpty ==
    (/\ last.op = "process"
     /\ last.exc = "none"
     /\ queue # <<>>)
       => drain = "check"

\* C27: a registered, open connection whose well-formed handshake has been
\* processed (its token has been assigned) is not answered with the
\* ERROR message of a missing token and not force-disconnected when a
\* later message of another type is processed.
C27_AuthenticatedStaysSo ==
    (/\ last.op = "process"
     /\ last.message.message_type # CONNECTION
     /\ last.tokenBefore # None
     /\ last.regBefore
     /\ last.wbBefore = "CONNECTED")
       => /\ ~last.discCalled
          /\ Count(SentByLastStep(last.client), ERROR) = 0
          /\ InList(last.client, client_connections)

\* C28: the clinic id and the correlation id of an accepted connection
\* never change, and every message written to a connection carries the
\* clinic id the connection was accepted with, whatever clinicId the
\* frames of the client carry.
C28_OwnClinicIdOnEveryMessage ==
    [][\A c \in Conns :
          /\ clinic_id[c] # None =>
                 /\ clinic_id'[c] = clinic_id[c]
                 /\ uuid'[c] = uuid[c]
          /\ \A i \in (Len(sent[c]) + 1)..Len(sent'[c]) :
                 sent'[c][i].clinic_id = clinic_id'[c][1]]_vars

\* A handshake that names another clinic than the connection's own was
\* processed on an open connection, which has been written a message.
C28_Witness ==
    /\ last.op = "process"
    /\ IsHandshake(last.message)
    /\ last.wbBefore = "CONNECTED"
    /\ Some(last.message.clinic_id) # clinic_id[last.client]
    /\ sent[last.client] # <<>>

\* C29: when a broadcast has ended without a failed send, every connection
\* of the clinic that was registered when it started and is still
\* registered has been sent the message exactly once, also when the
\* registry was changed while the broadcast was suspended.
C29_BroadcastUnderChange ==
    bcast.state = "done" =>
        \A c \in bcast.targets :
            InList(c, client_connections) => bcast.deliv[c] = 1

\* The threads on which a __process_queue loop is running.
LiveLoops == {t \in Threads : thread[t].pos \notin {"notstarted", "dead"}}

\* C30: however many times start_main_thread is called, at most one
\* __process_queue loop is running on the queue, which like the registry
\* is a class attribute and so the same object for every construction of
\* the manager.
C30_SingleDrainLoop == Cardinality(LiveLoops) <= 1
====
